---- MODULE Spec2Model ----
(***************************************************************************)
(* Personal Expense Tracker (src/main.py): the CSV ledger, its readers and *)
(* its exports, as a state machine over the file system.                   *)
(*                                                                         *)
(* Text is a sequence of one-character strings, so that parsing and        *)
(* formatting are computed, not assumed.  Python's None is the value None  *)
(* below.  Amounts are floats in the program; here they are integers in    *)
(* hundredths, and every amount of the model is a multiple of 0.25, which  *)
(* binary floating point adds exactly.  A file is a sequence of CSV rows,  *)
(* a row a sequence of fields: no text of the model holds a comma, a quote *)
(* or a line break, for which csv.writer and csv.reader are inverse.       *)
(***************************************************************************)
EXTENDS Integers, Sequences, FiniteSets, TLC

VARIABLES
  fs,   \* the files: path -> [exists, rows]
  ret   \* the last call: [op, args, res]

vars == <<fs, ret>>

(***************************************************************************)
(* Bounds of the model.                                                    *)
(***************************************************************************)
\* add_expense is not called on a store that already holds MaxRows rows
MaxRows == 3

(***************************************************************************)
(* Values.                                                                 *)
(***************************************************************************)
\* Python's None: no text, since every element of a text is one character
None == <<"None">>

Ok(v) == [ok |-> TRUE, val |-> v, err |-> ""]

Err(e) == [ok |-> FALSE, val |-> None, err |-> e]

Digits == <<"0", "1", "2", "3", "4", "5", "6", "7", "8", "9">>

DigitSet == {Digits[i] : i \in 1..10}

IsDigit(c) == c \in DigitSet

DigitValue == [c \in DigitSet |-> (CHOOSE i \in 1..10 : Digits[i] = c) - 1]

DigitVal(c) == DigitValue[c]

AllDigits(t) == \A i \in 1..Len(t) : IsDigit(t[i])

RECURSIVE DigitsVal(_)
\* the number a text of digits denotes
DigitsVal(t) ==
  IF Len(t) = 0 THEN 0
  ELSE 10 * DigitsVal(SubSeq(t, 1, Len(t) - 1)) + DigitVal(t[Len(t)])

RECURSIVE IntText(_)
\* the decimal digits of a natural number
IntText(n) ==
  IF n < 10 THEN <<Digits[n + 1]>>
  ELSE Append(IntText(n \div 10), Digits[(n % 10) + 1])

RECURSIVE LStrip(_)
LStrip(t) == IF Len(t) > 0 /\ t[1] = " " THEN LStrip(Tail(t)) ELSE t

RECURSIVE RStrip(_)
RStrip(t) ==
  IF Len(t) > 0 /\ t[Len(t)] = " " THEN RStrip(SubSeq(t, 1, Len(t) - 1)) ELSE t

\* str.strip()
Strip(t) == RStrip(LStrip(t))

RECURSIVE SplitFrom(_, _, _, _)
\* the parts of t from position i on, cur being the part begun before i
SplitFrom(t, sep, i, cur) ==
  IF i > Len(t) THEN <<cur>>
  ELSE IF t[i] = sep THEN <<cur>> \o SplitFrom(t, sep, i + 1, <<>>)
  ELSE SplitFrom(t, sep, i + 1, Append(cur, t[i]))

\* str.split(sep) for a one-character separator
Split(t, sep) == SplitFrom(t, sep, 1, <<>>)

\* `if x:` on a text or None
Truthy(x) == x # None /\ x # <<>>

(***************************************************************************)
(* float(text) and str(float), in hundredths.                              *)
(***************************************************************************)
\* float(x): optional blanks and sign, digits, an optional fraction.  A text
\* with more than two fraction digits has no value in hundredths, and
\* exponents, "inf" and "nan" are left out: no text of the model is one.
Float(x) ==
  IF x = None THEN Err("TypeError")
  ELSE LET s == Strip(x)
           neg == Len(s) > 0 /\ s[1] = "-"
           u == IF Len(s) > 0 /\ (s[1] = "-" \/ s[1] = "+") THEN Tail(s) ELSE s
           p == Split(u, ".")
           ip == p[1]
           fp == IF Len(p) = 2 THEN p[2] ELSE <<>>
           mag == 100 * DigitsVal(ip)
                  + (IF Len(fp) >= 1 THEN 10 * DigitVal(fp[1]) ELSE 0)
                  + (IF Len(fp) >= 2 THEN DigitVal(fp[2]) ELSE 0)
       IN IF Len(p) > 2 \/ ~AllDigits(ip) \/ ~AllDigits(fp)
             \/ Len(ip) + Len(fp) = 0
          THEN Err("ValueError")
          ELSE IF Len(fp) > 2 THEN Err("Unmodelled")
          ELSE Ok(IF neg THEN 0 - mag ELSE mag)

\* str(amount) of a float: the shortest text that reads back, which always
\* has a fraction ("5.0", "12.25", "-5.0")
Str(amount) ==
  LET mag == IF amount < 0 THEN 0 - amount ELSE amount
      frac == mag % 100
      ft == IF frac % 10 = 0 THEN <<Digits[(frac \div 10) + 1]>>
            ELSE <<Digits[(frac \div 10) + 1], Digits[(frac % 10) + 1]>>
  IN (IF amount < 0 THEN <<"-">> ELSE <<>>) \o IntText(mag \div 100) \o <<".">> \o ft

(***************************************************************************)
(* datetime.strptime(text, "%Y-%m-%d")                                     *)
(***************************************************************************)
\* %m: 1[0-2] | 0[1-9] | [1-9]
MonthText(t) ==
  \/ Len(t) = 2 /\ t[1] = "1" /\ t[2] \in {"0", "1", "2"}
  \/ Len(t) = 2 /\ t[1] = "0" /\ IsDigit(t[2]) /\ t[2] # "0"
  \/ Len(t) = 1 /\ IsDigit(t[1]) /\ t[1] # "0"

\* %d: 3[0-1] | [1-2]\d | 0[1-9] | [1-9] | " "[1-9]
DayText(t) ==
  \/ Len(t) = 2 /\ t[1] = "3" /\ t[2] \in {"0", "1"}
  \/ Len(t) = 2 /\ t[1] \in {"1", "2"} /\ IsDigit(t[2])
  \/ Len(t) = 2 /\ t[1] \in {"0", " "} /\ IsDigit(t[2]) /\ t[2] # "0"
  \/ Len(t) = 1 /\ IsDigit(t[1]) /\ t[1] # "0"

IsLeap(y) == (y % 4 = 0 /\ y % 100 # 0) \/ y % 400 = 0

DaysInMonth(y, m) ==
  IF m = 2 THEN (IF IsLeap(y) THEN 29 ELSE 28)
  ELSE IF m \in {4, 6, 9, 11} THEN 30 ELSE 31

\* the text must be year-month-day, each part as its directive allows, and
\* the three a date of the calendar; the value is <<year, month, day>>
strptime(x) ==
  IF x = None THEN Err("TypeError")
  ELSE LET p == Split(x, "-") IN
       IF Len(p) # 3 THEN Err("ValueError")
       ELSE IF ~(Len(p[1]) = 4 /\ AllDigits(p[1]) /\ MonthText(p[2]) /\ DayText(p[3]))
       THEN Err("ValueError")
       ELSE LET y == DigitsVal(p[1])
                m == DigitsVal(p[2])
                d == DigitsVal(LStrip(p[3]))
            IN IF y < 1 \/ d > DaysInMonth(y, m) THEN Err("ValueError")
               ELSE Ok(<<y, m, d>>)

\* datetime < datetime
DateLess(a, b) ==
  \/ a[1] < b[1]
  \/ a[1] = b[1] /\ a[2] < b[2]
  \/ a[1] = b[1] /\ a[2] = b[2] /\ a[3] < b[3]

(***************************************************************************)
(* The files.                                                              *)
(***************************************************************************)
\* FILE_NAME, the store
FILE_NAME == "expenses.csv"

\* export_csv's default path
EXPORT_PATH == "expenses_export.csv"

\* export_excel's default path; the workbook pandas writes there is never
\* read back, and the model keeps the frame written in the call's result
XLSX_PATH == "expenses.xlsx"

\* the CSV files
Paths == {FILE_NAME, EXPORT_PATH}

Absent == [exists |-> FALSE, rows |-> <<>>]

File(rows) == [exists |-> TRUE, rows |-> rows]

T_date == <<"d", "a", "t", "e">>

T_category == <<"c", "a", "t", "e", "g", "o", "r", "y">>

T_amount == <<"a", "m", "o", "u", "n", "t">>

T_description == <<"d", "e", "s", "c", "r", "i", "p", "t", "i", "o", "n">>

\* the header row init_file and export_csv write
FIELDNAMES == <<T_date, T_category, T_amount, T_description>>

(***************************************************************************)
(* init_file and add_expense                                               *)
(***************************************************************************)
\* init_file without its os.path.exists test: the store is rewritten
init_file_rewrite(f) == [f EXCEPT ![FILE_NAME] = File(<<FIELDNAMES>>)]

\* create the store with the header row, unless it exists
init_file(f) ==
  IF ~f[FILE_NAME].exists
  THEN [f EXCEPT ![FILE_NAME] = File(<<FIELDNAMES>>)]
  ELSE f

\* csv.writer.writerow([date, category, amount, description]): the amount,
\* a float, is written as its str()
ExpenseRow(date, category, amount, description) ==
  <<date, category, Str(amount), description>>

\* open(FILE_NAME, "a") creates the file when it is absent and appends one row
add_expense(f, date, category, amount, description) ==
  [f EXCEPT ![FILE_NAME] =
     File(Append(f[FILE_NAME].rows, ExpenseRow(date, category, amount, description)))]

(***************************************************************************)
(* read_expenses: csv.DictReader                                           *)
(***************************************************************************)
\* one row as a dict keyed by the field names: a field name met twice keeps
\* its last value, a missing field is None, surplus fields are a list under
\* the key None
RowDict(fieldnames, row) ==
  LET lf == Len(fieldnames)
      lr == Len(row)
      keys == {fieldnames[i] : i \in 1..lf} \cup (IF lr > lf THEN {None} ELSE {})
      last(k) == CHOOSE i \in 1..lf :
                   fieldnames[i] = k /\ \A j \in (i + 1)..lf : fieldnames[j] # k
  IN [k \in keys |->
        IF k = None /\ lr > lf THEN SubSeq(row, lf + 1, lr)
        ELSE IF last(k) <= lr THEN row[last(k)] ELSE None]

RECURSIVE DictRows(_, _)
\* the rows after the first, blank rows skipped
DictRows(fieldnames, rows) ==
  IF Len(rows) = 0 THEN <<>>
  ELSE IF Head(rows) = <<>> THEN DictRows(fieldnames, Tail(rows))
  ELSE <<RowDict(fieldnames, Head(rows))>> \o DictRows(fieldnames, Tail(rows))

\* csv.DictReader over the file at path: the first row is the field names
ReadRows(f, path) ==
  IF ~f[path].exists \/ Len(f[path].rows) = 0 THEN <<>>
  ELSE DictRows(Head(f[path].rows), Tail(f[path].rows))

\* read_expenses skipping the rows that do not have as many fields as the
\* header
read_expenses_strict(f) ==
  IF ~f[FILE_NAME].exists \/ Len(f[FILE_NAME].rows) = 0 THEN <<>>
  ELSE DictRows(Head(f[FILE_NAME].rows),
                SelectSeq(Tail(f[FILE_NAME].rows),
                          LAMBDA row : Len(row) = Len(Head(f[FILE_NAME].rows))))

read_expenses(f) == ReadRows(f, FILE_NAME)

(***************************************************************************)
(* total_expenses and summary_by_category                                  *)
(***************************************************************************)
\* the date test both loops make on a row: Ok(TRUE) to count it, Ok(FALSE)
\* to `continue`, an error when a date does not parse.  A bound is parsed
\* only when a row is compared with it.
DateFilter(row, start, end) ==
  IF T_date \notin DOMAIN row THEN Err("KeyError")
  ELSE LET date == strptime(row[T_date])
         s == strptime(start)
         e == strptime(end)
    IN IF ~date.ok THEN date
       ELSE IF Truthy(start) /\ ~s.ok THEN s
       ELSE IF Truthy(start) /\ DateLess(date.val, s.val) THEN Ok(FALSE)
       ELSE IF Truthy(end) /\ ~e.ok THEN e
       ELSE IF Truthy(end) /\ DateLess(e.val, date.val) THEN Ok(FALSE)
       ELSE Ok(TRUE)

\* float(row["amount"])
RowAmount(row) ==
  IF T_amount \notin DOMAIN row THEN Err("KeyError") ELSE Float(row[T_amount])

RECURSIVE TotalLoop(_, _, _, _)
TotalLoop(rows, total, start, end) ==
  IF Len(rows) = 0 THEN Ok(total)
  ELSE LET row == Head(rows)
           keep == DateFilter(row, start, end)
           amount == RowAmount(row)
       IN IF ~keep.ok THEN keep
          ELSE IF ~keep.val THEN TotalLoop(Tail(rows), total, start, end)
          ELSE IF ~amount.ok THEN amount
          ELSE TotalLoop(Tail(rows), total + amount.val, start, end)

\* total_expenses parsing its bounds once, before the loop
total_expenses_eager(f, start, end) ==
  IF Truthy(start) /\ ~strptime(start).ok THEN strptime(start)
  ELSE IF Truthy(end) /\ ~strptime(end).ok THEN strptime(end)
  ELSE TotalLoop(read_expenses(f), 0, start, end)

total_expenses(f, start, end) == TotalLoop(read_expenses(f), 0, start, end)

\* summary[cat] = summary.get(cat, 0) + amount, on a dict kept as the
\* sequence of its items in insertion order
DictAdd(summary, cat, amount) ==
  IF \E i \in 1..Len(summary) : summary[i].key = cat
  THEN [i \in 1..Len(summary) |->
          IF summary[i].key = cat
          THEN [key |-> cat, value |-> summary[i].value + amount]
          ELSE summary[i]]
  ELSE Append(summary, [key |-> cat, value |-> amount])

RECURSIVE SummaryLoop(_, _, _, _)
SummaryLoop(rows, summary, start, end) ==
  IF Len(rows) = 0 THEN Ok(summary)
  ELSE LET row == Head(rows)
           keep == DateFilter(row, start, end)
           amount == RowAmount(row)
       IN IF ~keep.ok THEN keep
          ELSE IF ~keep.val THEN SummaryLoop(Tail(rows), summary, start, end)
          ELSE IF T_category \notin DOMAIN row THEN Err("KeyError")
          ELSE IF ~amount.ok THEN amount
          ELSE SummaryLoop(Tail(rows), DictAdd(summary, row[T_category], amount.val),
                           start, end)

\* summary_by_category without its test of the end bound
summary_by_category_noend(f, start, end) ==
  SummaryLoop(read_expenses(f), <<>>, start, None)

summary_by_category(f, start, end) == SummaryLoop(read_expenses(f), <<>>, start, end)

(***************************************************************************)
(* export_csv: csv.DictWriter                                              *)
(***************************************************************************)
\* DictWriter._dict_to_list: a key that is no field name raises ValueError
WrongFields(row) == DOMAIN row \ {FIELDNAMES[i] : i \in 1..Len(FIELDNAMES)}

\* the row written: a missing field and None are written as the empty text
ListOfDict(row) ==
  [i \in 1..Len(FIELDNAMES) |->
     IF FIELDNAMES[i] \in DOMAIN row /\ row[FIELDNAMES[i]] # None
     THEN row[FIELDNAMES[i]] ELSE <<>>]

RECURSIVE WriteRows(_, _)
\* writerows: row after row, up to the first row that raises
WriteRows(written, rows) ==
  IF Len(rows) = 0 THEN [rows |-> written, res |-> Ok(Len(written) - 1)]
  ELSE IF WrongFields(Head(rows)) # {} THEN [rows |-> written, res |-> Err("ValueError")]
  ELSE WriteRows(Append(written, ListOfDict(Head(rows))), Tail(rows))

\* the rows are read first; with none, nothing is written; open(path, "w")
\* then empties the file, also when path is the store's
export_csv(f, path) ==
  LET rows == read_expenses(f)
      out == WriteRows(<<FIELDNAMES>>, rows)
  IN IF Len(rows) = 0 THEN [fs |-> f, res |-> Ok(None)]
     ELSE [fs |-> [f EXCEPT ![path] = File(out.rows)], res |-> out.res]

(***************************************************************************)
(* export_excel: pandas                                                    *)
(***************************************************************************)
\* pandas chooses the writer by the path's extension and has none for csv
IsExcelPath(path) == path = XLSX_PATH

\* df["amount"].astype(float): None becomes the missing value
FrameRow(row) ==
  [k \in DOMAIN row |->
     IF k = T_amount /\ row[k] # None THEN Float(row[k]).val ELSE row[k]]

export_excel(f, path) ==
  LET rows == read_expenses(f) IN
  IF Len(rows) = 0 THEN [fs |-> f, res |-> Ok(None)]
  ELSE IF \E i \in 1..Len(rows) : T_amount \notin DOMAIN rows[i]
  THEN [fs |-> f, res |-> Err("KeyError")]
  ELSE IF \E i \in 1..Len(rows) :
            rows[i][T_amount] # None /\ ~Float(rows[i][T_amount]).ok
  THEN [fs |-> f, res |-> Err("ValueError")]
  ELSE IF ~IsExcelPath(path) THEN [fs |-> f, res |-> Err("ValueError")]
  ELSE [fs |-> f, res |-> Ok([i \in 1..Len(rows) |-> FrameRow(rows[i])])]

(***************************************************************************)
(* The inputs of the model.                                                *)
(***************************************************************************)
D_0110 == <<"2", "0", "2", "4", "-", "0", "1", "-", "1", "0">>

D_0201 == <<"2", "0", "2", "4", "-", "0", "2", "-", "0", "1">>

\* a date strptime accepts that is not zero-padded
D_15 == <<"2", "0", "2", "4", "-", "1", "-", "5">>

\* no date of the calendar
D_0230 == <<"2", "0", "2", "4", "-", "0", "2", "-", "3", "0">>

\* no date either: month 13
D_1301 == <<"2", "0", "2", "4", "-", "1", "3", "-", "0", "1">>

C_Food == <<"F", "o", "o", "d">>

C_food == <<"f", "o", "o", "d">>

C_Rent == <<"R", "e", "n", "t">>

N_x == <<"x">>

\* (date, category, amount, description) as add_expense is called with
Expenses ==
  { <<D_0110, C_Food, 500, N_x>>,
    <<D_0201, C_Rent, 1225, <<>>>>,
    <<D_15, C_food, 500, <<>>>>,
    <<D_0230, C_Food, 500, <<>>>>,
    <<D_0201, C_Food, -500, <<>>>> }

\* what is typed at main's four prompts of choice 1
Forms ==
  { <<<<" ", "2", "0", "2", "4", "-", "0", "1", "-", "1", "0">>, <<"F", "o", "o", "d", " ">>, <<"5">>, N_x>>,
    <<D_0230, C_Food, <<" ", "5", ".", "0">>, <<>>>>,
    <<D_0201, C_Food, <<"-", "5">>, <<>>>>,
    <<D_0201, C_Rent, <<"a", "b", "c">>, <<>>>> }

\* the start and end given to a query; None is "no bound"
Bounds == {None, D_0110, D_1301}

CsvPaths == {EXPORT_PATH, FILE_NAME}

ExcelPaths == {XLSX_PATH, FILE_NAME}

(***************************************************************************)
(* The state machine: one action per function, and main's choice 1.        *)
(***************************************************************************)
Call(op, args, res) == [op |-> op, args |-> args, res |-> res]

\* before main runs: no file exists
Init ==
  /\ fs = [p \in Paths |-> Absent]
  /\ ret = Call("start", <<>>, Ok(None))

InitFile ==
  /\ fs' = init_file(fs)
  /\ ret' = Call("init_file", <<>>, Ok(None))

AddExpense ==
  \E e \in Expenses :
    /\ Len(fs[FILE_NAME].rows) < MaxRows
    /\ fs' = add_expense(fs, e[1], e[2], e[3], e[4])
    /\ ret' = Call("add_expense", e, Ok(None))

\* main up to the end of a choice "1": init_file() comes first; each input
\* is stripped, the amount goes through float(), and any exception is caught
\* and printed as "Error: ...", the res kept here
MainAddExpense ==
  \E form \in Forms :
    LET date == Strip(form[1])
        category == Strip(form[2])
        amount == Float(Strip(form[3]))
        description == Strip(form[4])
    IN /\ Len(fs[FILE_NAME].rows) < MaxRows
       /\ IF amount.ok
          THEN /\ fs' = add_expense(init_file(fs), date, category, amount.val,
                                    description)
               /\ ret' = Call("main_add", <<date, category, Strip(form[3]), description>>,
                              Ok(None))
          ELSE /\ fs' = init_file(fs)
               /\ ret' = Call("main_add", <<date, category, Strip(form[3]), description>>,
                              amount)

ReadExpenses ==
  /\ fs' = fs
  /\ ret' = Call("read_expenses", <<>>, Ok(read_expenses(fs)))

TotalExpenses ==
  \E start \in Bounds, end \in Bounds :
    /\ fs' = fs
    /\ ret' = Call("total_expenses", <<start, end>>, total_expenses(fs, start, end))

SummaryByCategory ==
  \E start \in Bounds, end \in Bounds :
    /\ fs' = fs
    /\ ret' = Call("summary_by_category", <<start, end>>,
                   summary_by_category(fs, start, end))

ExportCsv ==
  \E path \in CsvPaths :
    LET out == export_csv(fs, path)
    IN /\ fs' = out.fs
       /\ ret' = Call("export_csv", <<path>>, out.res)

ExportExcel ==
  \E path \in ExcelPaths :
    LET out == export_excel(fs, path)
    IN /\ fs' = out.fs
       /\ ret' = Call("export_excel", <<path>>, out.res)

Next ==
  \/ InitFile
  \/ AddExpense
  \/ MainAddExpense
  \/ ReadExpenses
  \/ TotalExpenses
  \/ SummaryByCategory
  \/ ExportCsv
  \/ ExportExcel

Spec == Init /\ [][Next]_vars

(***************************************************************************)
(* The same program started on a store that holds a malformed row: a file  *)
(* left by an earlier run and edited by hand.                              *)
(***************************************************************************)
MalformedRows ==
  { <<D_0110, C_Food>>,
    <<D_0110, C_Food, <<"5", ".", "0">>, N_x, <<"e", "x", "t", "r", "a">>>>,
    <<D_0110, C_Food, <<"a", "b", "c">>, <<>>>>,
    <<>> }

InitCorrupt ==
  /\ \E row \in MalformedRows :
       fs = [p \in Paths |-> IF p = FILE_NAME THEN File(<<FIELDNAMES, row>>) ELSE Absent]
  /\ ret = Call("start", <<>>, Ok(None))

SpecCorrupt == InitCorrupt /\ [][Next]_vars


(***************************************************************************)
(* What the claims speak of.                                               *)
(***************************************************************************)
IsAdd(call) == call.op \in {"add_expense", "main_add"}

\* the amount an add was called with: a number, or the text typed at main
CallAmount(call) ==
  IF call.op = "add_expense" THEN Ok(call.args[3]) ELSE Float(call.args[3])

\* the record's date is a date of the calendar and its amount is >= 0
ValidRecord(call) ==
  /\ strptime(call.args[1]).ok
  /\ CallAmount(call).ok
  /\ CallAmount(call).val >= 0

Field(row, k) == IF k \in DOMAIN row THEN row[k] ELSE None

\* row is the record an add was called with, field for field
IsRecordOf(row, call) ==
  /\ DOMAIN row = {T_date, T_category, T_amount, T_description}
  /\ row[T_date] = call.args[1]
  /\ row[T_category] = call.args[2]
  /\ Float(row[T_amount]) = CallAmount(call)
  /\ row[T_description] = call.args[4]

IsPrefix(a, b) == Len(a) <= Len(b) /\ SubSeq(b, 1, Len(a)) = a

\* the characters of the model's texts, in code point order
CharOrder ==
  <<" ", "+", "-", ".", "0", "1", "2", "3", "4", "5", "6", "7", "8", "9", "F", "R",
    "a", "b", "c", "d", "e", "f", "g", "h", "i", "j", "k", "l", "m", "n", "o", "p",
    "q", "r", "s", "t", "u", "v", "w", "x", "y", "z">>

CharCode == [c \in {CharOrder[i] : i \in 1..Len(CharOrder)} |->
               CHOOSE i \in 1..Len(CharOrder) : CharOrder[i] = c]

RECURSIVE LexLeq(_, _)
\* a <= b as Python compares strings
LexLeq(a, b) ==
  IF Len(a) = 0 THEN TRUE
  ELSE IF Len(b) = 0 THEN FALSE
  ELSE IF Head(a) # Head(b) THEN CharCode[Head(a)] < CharCode[Head(b)]
  ELSE LexLeq(Tail(a), Tail(b))

\* start <= date <= end on the date strings, an omitted bound unbounded
LexInRange(date, start, end) ==
  /\ Truthy(start) => LexLeq(start, date)
  /\ Truthy(end) => LexLeq(date, end)

\* a stored row that is a record: a date text and a numeric amount
IsStoredRecord(row) ==
  /\ Field(row, T_date) # None
  /\ Float(Field(row, T_amount)).ok

RECURSIVE LexSum(_, _, _)
LexSum(rows, start, end) ==
  IF Len(rows) = 0 THEN 0
  ELSE (IF LexInRange(Head(rows)[T_date], start, end)
        THEN Float(Head(rows)[T_amount]).val ELSE 0)
       + LexSum(Tail(rows), start, end)

\* the sum the claim gives for total_expenses(start, end)
LexTotal(rows, start, end) ==
  IF \A i \in 1..Len(rows) : IsStoredRecord(rows[i])
  THEN Ok(LexSum(rows, start, end))
  ELSE Err("NoRecord")

\* start <= date <= end on the parsed dates, as the loops test it
DateInRange(date, start, end) ==
  /\ Truthy(start) => ~DateLess(strptime(date).val, strptime(start).val)
  /\ Truthy(end) => ~DateLess(strptime(end).val, strptime(date).val)

RECURSIVE SumValues(_)
SumValues(summary) ==
  IF Len(summary) = 0 THEN 0 ELSE Head(summary).value + SumValues(Tail(summary))

KeySet(summary) == {summary[i].key : i \in 1..Len(summary)}

\* position of the first row of the category
FirstSeen(rows, cat) ==
  CHOOSE i \in 1..Len(rows) :
    Field(rows[i], T_category) = cat
    /\ \A j \in 1..(i - 1) : Field(rows[j], T_category) # cat

\* a stored row that is no record of four fields with a numeric amount
Malformed(row) == Len(row) # Len(FIELDNAMES) \/ ~Float(row[3]).ok

DataRows(f) == IF Len(f[FILE_NAME].rows) = 0 THEN <<>> ELSE Tail(f[FILE_NAME].rows)

HasMalformedRow(f) == \E i \in 1..Len(DataRows(f)) : Malformed(DataRows(f)[i])

RECURSIVE NonBlank(_)
NonBlank(rows) ==
  IF Len(rows) = 0 THEN <<>>
  ELSE IF Head(rows) = <<>> THEN NonBlank(Tail(rows))
  ELSE <<Head(rows)>> \o NonBlank(Tail(rows))

\* what read_expenses gives for a stored row under the header the code writes
RowAsRead(row, d) ==
  /\ DOMAIN d = {T_date, T_category, T_amount, T_description}
                  \cup (IF Len(row) > 4 THEN {None} ELSE {})
  /\ d[T_date] = (IF Len(row) >= 1 THEN row[1] ELSE None)
  /\ d[T_category] = (IF Len(row) >= 2 THEN row[2] ELSE None)
  /\ d[T_amount] = (IF Len(row) >= 3 THEN row[3] ELSE None)
  /\ d[T_description] = (IF Len(row) >= 4 THEN row[4] ELSE None)
  /\ Len(row) > 4 => d[None] = SubSeq(row, 5, Len(row))

\* the header the specification gives: date, category, amount, note
SPEC_HEADER == <<T_date, T_category, T_amount, <<"n", "o", "t", "e">>>>

\* the header the code writes, spelled out
CODE_HEADER ==
  <<<<"d", "a", "t", "e">>,
    <<"c", "a", "t", "e", "g", "o", "r", "y">>,
    <<"a", "m", "o", "u", "n", "t">>,
    <<"d", "e", "s", "c", "r", "i", "p", "t", "i", "o", "n">>>>

(***************************************************************************)
(* C1.  add_expense succeeds if and only if the record's date is a valid   *)
(* calendar date and its amount is >= 0; otherwise it fails and the ledger *)
(* read back is what it was before the call.                               *)
(***************************************************************************)
C1_AppendValidity ==
  [][IsAdd(ret') =>
       /\ ret'.res.ok <=> ValidRecord(ret')
       /\ ~ValidRecord(ret') => read_expenses(fs') = read_expenses(fs)]_vars

(***************************************************************************)
(* C2.  After a successful add_expense(r), read_expenses() returns what it *)
(* returned before the call, in the same order, followed by r as the last  *)
(* element; from every store state, the absent store included.             *)
(***************************************************************************)
C2_ReadAfterAppend ==
  [][(IsAdd(ret') /\ ret'.res.ok) =>
       LET before == read_expenses(fs)
           after == read_expenses(fs')
       IN /\ Len(after) = Len(before) + 1
          /\ SubSeq(after, 1, Len(before)) = before
          /\ IsRecordOf(after[Len(after)], ret')]_vars

(***************************************************************************)
(* C3.  total_expenses(start, end) is the sum of amount over exactly the   *)
(* stored records whose date string satisfies start <= date <= end under   *)
(* lexicographic string comparison, both bounds inclusive, an omitted      *)
(* bound unbounded.  Stated here for bounds that are dates or omitted.     *)
(***************************************************************************)
C3_TotalLexicographic ==
  (/\ ret.op = "total_expenses"
   /\ \A k \in 1..2 : Truthy(ret.args[k]) => strptime(ret.args[k]).ok) =>
    ret.res = LexTotal(read_expenses(fs), ret.args[1], ret.args[2])

(***************************************************************************)
(* C4.  summary_by_category returns its categories by summed amount,       *)
(* descending, categories of equal sum in the order first met in the       *)
(* ledger.                                                                 *)
(***************************************************************************)
C4_SummaryDescending ==
  (ret.op = "summary_by_category" /\ ret.res.ok) =>
    \A i, j \in 1..Len(ret.res.val) :
      i < j =>
        \/ ret.res.val[i].value > ret.res.val[j].value
        \/ /\ ret.res.val[i].value = ret.res.val[j].value
           /\ FirstSeen(read_expenses(fs), ret.res.val[i].key)
                < FirstSeen(read_expenses(fs), ret.res.val[j].key)

C7_ExportRoundTrip ==
  ret.op = "export_csv" => ReadRows(fs, ret.args[1]) = read_expenses(fs)

(***************************************************************************)
(* C8.  The ledger is append-only: every step leaves the stored record     *)
(* sequence a prefix of the new one, and only an add changes it; reads,    *)
(* queries and exports leave it as it was, also an export to the store's   *)
(* own path.                                                               *)
(***************************************************************************)
C8_AppendOnly ==
  [][/\ IsPrefix(read_expenses(fs), read_expenses(fs'))
     /\ ~IsAdd(ret') => read_expenses(fs') = read_expenses(fs)]_vars

(***************************************************************************)
(* C9.  As claimed: init_file creates an absent store holding only the     *)
(* header date, category, amount, note, and leaves an existing store as it *)
(* is.                                                                     *)
(***************************************************************************)
C9_InitWritesNoteHeader ==
  [][ret'.op = "init_file" =>
       fs' = IF fs[FILE_NAME].exists THEN fs
             ELSE [fs EXCEPT ![FILE_NAME] = File(<<SPEC_HEADER>>)]]_vars

(***************************************************************************)
(* C9, amended.  init_file is idempotent: on an absent store it creates a  *)
(* store holding only the header date, category, amount, description and   *)
(* no records; on an existing store it leaves header and records as they   *)
(* are; so a second call changes nothing.                                  *)
(***************************************************************************)
C9_InitIdempotent ==
  [][ret'.op = "init_file" =>
       /\ fs' = IF fs[FILE_NAME].exists THEN fs
                ELSE [fs EXCEPT ![FILE_NAME] = File(<<CODE_HEADER>>)]
       /\ read_expenses(fs') = read_expenses(fs)
       /\ init_file(fs') = fs']_vars

\* init_file was called on a store that held records, and they are there
C9_Witness ==
  /\ ret.op = "init_file"
  /\ Len(fs[FILE_NAME].rows) = 3
  /\ Len(read_expenses(fs)) = 2

(***************************************************************************)
(* C10.  On a store that is absent, freshly initialized or otherwise holds *)
(* no records no query fails: read_expenses returns the empty sequence,    *)
(* total_expenses 0.0 and summary_by_category the empty mapping, for every *)
(* start and end.                                                          *)
(***************************************************************************)
C10_EmptyStoreQueries ==
  /\ (~fs[FILE_NAME].exists \/ fs[FILE_NAME].rows = <<CODE_HEADER>>) =>
       read_expenses(fs) = <<>>
  /\ read_expenses(fs) = <<>> =>
       /\ ret.op = "read_expenses" => ret.res = Ok(<<>>)
       /\ ret.op = "total_expenses" => ret.res = Ok(0)
       /\ ret.op = "summary_by_category" => ret.res = Ok(<<>>)
       /\ \A start \in Bounds, end \in Bounds :
            /\ total_expenses(fs, start, end) = Ok(0)
            /\ summary_by_category(fs, start, end) = Ok(<<>>)

\* a total over the freshly initialized store, with bounds that are no dates
C10_Witness ==
  /\ ret.op = "total_expenses"
  /\ ret.args = <<D_1301, D_1301>>
  /\ ret.res = Ok(0)
  /\ fs[FILE_NAME] = File(<<CODE_HEADER>>)

====
